---- MODULE Spec2Model ----
(***************************************************************************)
(* The communication-game engine of game.py: one forward call of           *)
(* CommunicationRnnMultiTask, step by step, with the baselines as the only *)
(* state carried from call to call; the forward call of the supervised     *)
(* engine of the same file; and the training loop of main in               *)
(* train_image_captioning.py, with its validations and checkpoints.        *)
(*                                                                         *)
(* Tensors are sequences: a (B,) tensor is a sequence of B numbers, a      *)
(* (B, max_len) tensor a sequence of B rows.  Floats are modelled as exact *)
(* rationals <<numerator, denominator>> in lowest terms.                   *)
(***************************************************************************)
EXTENDS Integers, Sequences, FiniteSets, TLC

\* ------------------------------------------------------------------ bounds
MaxB == 2
MaxLen == 2
MaxCalls == 2
MaxEpochs == 2
MaxBatches == 3
MaxValPasses == 2

\* ------------------------------------------------------ exact arithmetic
Abs(x) == IF x < 0 THEN -x ELSE x

RECURSIVE GCD(_, _)
GCD(a, b) == IF b = 0 THEN a ELSE GCD(b, a % b)

\* What a float division by zero leaves behind (inf or nan): denominator 0.
NaN == <<0, 0>>

IsNaN(x) == x[2] = 0

\* The float n/d in lowest terms, the denominator positive.
Rat(n, d) ==
    IF d = 0 THEN NaN
    ELSE LET g == GCD(Abs(n), Abs(d))
             s == IF d < 0 THEN -1 ELSE 1
         IN  <<(s * n) \div g, (s * d) \div g>>

R(n) == <<n, 1>>

RAdd(x, y) == IF IsNaN(x) \/ IsNaN(y) THEN NaN
              ELSE Rat(x[1] * y[2] + y[1] * x[2], x[2] * y[2])
RNeg(x) == IF IsNaN(x) THEN NaN ELSE <<-x[1], x[2]>>
RSub(x, y) == RAdd(x, RNeg(y))
RMul(x, y) == IF IsNaN(x) \/ IsNaN(y) THEN NaN
              ELSE Rat(x[1] * y[1], x[2] * y[2])
RDiv(x, y) == IF IsNaN(x) \/ IsNaN(y) THEN NaN
              ELSE Rat(x[1] * y[2], x[2] * y[1])

\* ------------------------------------------------------------- tensors
\* torch's broadcasting of two (n,) tensors: equal sizes, or one of size 1.
Broadcastable(x, y) == Len(x) = Len(y) \/ Len(x) = 1 \/ Len(y) = 1

BroadcastLen(x, y) == IF Len(x) >= Len(y) THEN Len(x) ELSE Len(y)

At(x, j) == IF Len(x) = 1 THEN x[1] ELSE x[j]

TAdd(x, y) == [j \in 1..BroadcastLen(x, y) |-> RAdd(At(x, j), At(y, j))]
TSub(x, y) == [j \in 1..BroadcastLen(x, y) |-> RSub(At(x, j), At(y, j))]
TMul(x, y) == [j \in 1..BroadcastLen(x, y) |-> RMul(At(x, j), At(y, j))]
TDiv(x, y) == [j \in 1..BroadcastLen(x, y) |-> RDiv(At(x, j), At(y, j))]

\* x += y: the result must have x's own shape.
InPlaceOk(x, y) == Len(y) = Len(x) \/ Len(y) = 1

RECURSIVE TSum(_)
TSum(x) == IF x = <<>> THEN R(0) ELSE RAdd(Head(x), TSum(Tail(x)))

Mean(x) == RDiv(TSum(x), R(Len(x)))

Scale(x, c) == [j \in 1..Len(x) |-> RMul(x[j], c)]

Zeros(n) == [j \in 1..n |-> R(0)]

FloatT(x) == [j \in 1..Len(x) |-> R(x[j])]

Column(t, i) == [b \in 1..Len(t) |-> t[b][i]]

\* --------------------------------------------------- sequence lengths
\* The end-of-sequence symbol.
EOS == 0

Symbols == {0, 1}

Rows == [1..MaxLen -> Symbols]

\* The 0-based positions of a row that hold EOS.
EosPositions(row) == {i \in 0..(Len(row) - 1) : row[i + 1] = EOS}

Min(S) == CHOOSE x \in S : \A y \in S : x <= y

\* find_lengths on one row: 1 + the index of the first EOS, or the row's
\* length when it holds no EOS.
find_length(row) ==
    IF EosPositions(row) = {} THEN Len(row) ELSE 1 + Min(EosPositions(row))

find_lengths(messages) == [b \in 1..Len(messages) |-> find_length(messages[b])]

\* ------------------------------------------------------------ baselines
BaselineNames == {"loss", "length"}

\* A fresh estimator, as the baseline factory builds it.
MeanBaseline == [count |-> 0, mean |-> R(0)]

\* defaultdict(baseline_type) before any access.
NoBaselines == [k \in {} |-> MeanBaseline]

\* self.baselines[name]: the defaultdict creates the estimator on first access.
Touch(baselines, name) ==
    IF name \in DOMAIN baselines THEN baselines
    ELSE [k \in (DOMAIN baselines) \cup {name} |->
            IF k = name THEN MeanBaseline ELSE baselines[k]]

\* predict: the current estimate, as a (1,) tensor.
predict(bl) == <<bl.mean>>

\* update: the sample mean of all the values seen so far.
update(bl, value) ==
    LET n == bl.count + Len(value)
    IN  [count |-> n,
         mean  |-> RAdd(bl.mean,
                        RDiv(RSub(TSum(value), RMul(R(Len(value)), bl.mean)), R(n)))]

\* The estimate of a name, created or not: what predict would return for it.
Estimate(baselines, name) ==
    IF name \in DOMAIN baselines THEN baselines[name] ELSE MeanBaseline

\* ---------------------------------------------------------------- state
VARIABLES
    self,       \* the engine: its coefficients, training flag and baselines
    local,      \* the locals of the forward call in progress
    pc,         \* where the forward call stands
    calls,      \* the collaborators invoked by the call in progress, in order
    entry,      \* the baselines when the call in progress began
    ncalls,     \* forward calls made so far
    oracle,     \* the supervised engine and its forward call in progress
    main        \* the model, the locals and the position of main's training loop

vars == <<self, local, pc, calls, entry, ncalls, oracle, main>>

\* __init__: the coefficients the engine is built with.
Configs ==
    { [sender_entropy_coeff |-> 1, receiver_entropy_coeff |-> 2,
       length_cost |-> 1, weight_structural_loss |-> 2],
      [sender_entropy_coeff |-> 2, receiver_entropy_coeff |-> 1,
       length_cost |-> 2, weight_structural_loss |-> 0],
      [sender_entropy_coeff |-> 0, receiver_entropy_coeff |-> 0,
       length_cost |-> 0, weight_structural_loss |-> -1] }

NoLocals ==
    [batch |-> 0, messages |-> <<>>, log_prob_s |-> <<>>, entropy_s |-> <<>>,
     message_lengths |-> <<>>, log_prob_r |-> <<>>, entropy_r |-> <<>>,
     aux_info |-> {}, acc |-> <<>>, reward |-> <<>>, loss |-> <<>>,
     effective_entropy_s |-> <<>>, effective_log_prob_s |-> <<>>,
     length_loss |-> <<>>, baseline_length |-> <<>>, baseline_loss |-> <<>>,
     loss_struct |-> R(0), optimized_loss |-> R(0),
     interaction |-> "none", error |-> "none"]

\* Lines 81-117: the engine as __init__ leaves it.
Built(c) ==
    [sender_entropy_coeff |-> R(c.sender_entropy_coeff),
     receiver_entropy_coeff |-> R(c.receiver_entropy_coeff),
     length_cost |-> R(c.length_cost),
     weight_structural_loss |-> c.weight_structural_loss,
     training |-> TRUE,
     baselines |-> NoBaselines]

\* No forward call of the engine made yet.
Idle ==
    /\ local = NoLocals
    /\ pc = "idle"
    /\ calls = <<>>
    /\ entry = NoBaselines
    /\ ncalls = 0

\* Lines 241-289: the supervised engine as __init__ leaves it, with the
\* default coefficients; it has no baselines attribute.
OracleBuilt ==
    [sender_entropy_coeff |-> R(0), receiver_entropy_coeff |-> R(0),
     length_cost |-> R(0), training |-> TRUE,
     pc |-> "idle", calls |-> <<>>, ncalls |-> 0,
     message |-> <<>>, message_length |-> <<>>, loss |-> <<>>,
     aux_info |-> {}, optimized_loss |-> R(0), interaction |-> "none"]

\* math.inf, next to the rationals and NaN.
PosInf == <<1, 0>>

\* train_image_captioning.py lines 253-259: main at the head of its loops,
\* logging every f batches; the model is in training mode, as a module is
\* when constructed; val_loss is not bound yet and nothing is saved.
\* val_passes counts the forward passes of the validation in progress;
\* val_modes and train_modes hold the modes in which validation passes and
\* training passes, backward passes and optimizer steps have run; seen
\* holds the validation losses returned and saves counts the checkpoints.
MainStart(f) ==
    [pc |-> "loop", epoch |-> 0, batch_idx |-> 0, log_frequency |-> f,
     training |-> TRUE, best_val_loss |-> PosInf, val_loss |-> NaN,
     checkpoint |-> [saved |-> FALSE, epoch |-> 0, loss |-> PosInf],
     val_passes |-> 0, val_modes |-> {}, train_modes |-> {},
     seen |-> {}, saves |-> 0]

Init ==
    /\ \E c \in Configs : self = Built(c)
    /\ Idle
    /\ oracle = OracleBuilt
    /\ main = MainStart(1)

\* ------------------------------------------------------- collaborators
\* The message batches a Sender may return for n inputs: every batch, or
\* the batches whose rows are the rotations of one row that holds a single
\* EOS, at any position, or none.
Rotate(row, j) == [i \in 1..MaxLen |-> row[((i - 1 + j) % MaxLen) + 1]]

SingleEosRows ==
    {[i \in 1..MaxLen |-> IF i = j THEN EOS ELSE 1] : j \in 1..(MaxLen + 1)}

MessageBatches(n, every) ==
    IF every THEN [1..n -> Rows]
    ELSE {[b \in 1..n |-> Rotate(row, b - 1)] : row \in SingleEosRows}

\* What the Sender returns with a sampled message: per-position
\* log-probabilities and entropies, all distinct along a row.
SenderLogProb(n) == [b \in 1..n |-> [i \in 1..MaxLen |-> R(-(2 * i + b))]]

SenderEntropy(n) == [b \in 1..n |-> [i \in 1..MaxLen |-> R(i + b)]]

\* What the Receiver returns: a (B,) log-probability and a (B,) entropy.
ReceiverLogProb(n) == [b \in 1..n |-> R(-(1 + b))]

ReceiverEntropy(n) == [b \in 1..n |-> R(2 * b)]

\* The "acc" tensors a functional loss may return for n inputs: every 0/1
\* tensor, or those whose correct answers come first.
AccTensors(n, every) ==
    IF every THEN [1..n -> {0, 1}]
    ELSE {[b \in 1..n |-> IF b <= c THEN 1 ELSE 0] : c \in 0..n}

\* The structural loss the second loss function returns.
StructLosses == {3}

\* ------------------------------------------------- the forward call
Running == pc \notin {"idle", "done", "error"}

Raise(what) ==
    /\ pc' = "error"
    /\ local' = [local EXCEPT !.error = what]

\* Lines 129-137: a call begins, in the mode the module is in, on a batch of
\* n labelled inputs.
ForwardBegin(limit) ==
    /\ ~Running
    /\ ncalls < limit
    /\ \E mode \in BOOLEAN, n \in 1..MaxB :
          /\ self' = [self EXCEPT !.training = mode]
          /\ local' = [NoLocals EXCEPT !.batch = n]
    /\ pc' = "sender"
    /\ calls' = <<>>
    /\ entry' = self.baselines
    /\ ncalls' = ncalls + 1
    /\ UNCHANGED <<oracle, main>>

\* Lines 140-147: the Sender samples a message (both branches make the same
\* call); it returns tensors of the batch's size, or of any size when it
\* breaks its contract.
ReturnedSizes(mismatch) == IF mismatch THEN 1..MaxB ELSE {local.batch}

SenderSample(mismatch, every) ==
    /\ pc = "sender"
    /\ \E n \in ReturnedSizes(mismatch) :
          \E m \in MessageBatches(n, every) :
             local' = [local EXCEPT !.messages = m,
                                    !.log_prob_s = SenderLogProb(n),
                                    !.entropy_s = SenderEntropy(n)]
    /\ calls' = Append(calls, "sender_sample")
    /\ pc' = "lengths"
    /\ UNCHANGED <<self, entry, ncalls>>
    /\ UNCHANGED <<oracle, main>>

\* Faulty variant: the symbols before the first EOS counted, the EOS itself not.
MessageLengthsWithoutEos(messages) ==
    [b \in 1..Len(messages) |->
        IF EosPositions(messages[b]) = {} THEN Len(messages[b])
        ELSE Min(EosPositions(messages[b]))]

\* Line 148.
MessageLengths(messages) == find_lengths(messages)

FindLengths ==
    /\ pc = "lengths"
    /\ local' = [local EXCEPT !.message_lengths = MessageLengths(local.messages)]
    /\ calls' = Append(calls, "find_lengths")
    /\ pc' = "receiver"
    /\ UNCHANGED <<self, entry, ncalls>>
    /\ UNCHANGED <<oracle, main>>

\* Lines 150-152: the Receiver returns tensors of the batch's size, or of
\* any size when it breaks its contract.
Receiver(mismatch) ==
    /\ pc = "receiver"
    /\ \E n \in ReturnedSizes(mismatch) :
          local' = [local EXCEPT !.log_prob_r = ReceiverLogProb(n),
                                 !.entropy_r = ReceiverEntropy(n)]
    /\ calls' = Append(calls, "receiver")
    /\ pc' = "loss_functional"
    /\ UNCHANGED <<self, entry, ncalls>>
    /\ UNCHANGED <<oracle, main>>

\* Lines 154-158: the functional loss returns its aux_info, with or without
\* "acc"; the engine adds "loss_functional" to it.
LossFunctional(every) ==
    /\ pc = "loss_functional"
    /\ \E keys \in SUBSET {"acc"}, a \in AccTensors(local.batch, every) :
          local' = [local EXCEPT !.aux_info = keys \cup {"loss_functional"},
                                 !.acc = IF "acc" \in keys THEN a ELSE <<>>]
    /\ calls' = Append(calls, "loss_functional")
    /\ pc' = "reward"
    /\ UNCHANGED <<self, entry, ncalls>>
    /\ UNCHANGED <<oracle, main>>

\* Faulty variant: a missing "acc" goes unnoticed.
AccNotLookedUp(aux_info) == TRUE

\* Line 161: aux_info["acc"] raises KeyError when the key is missing.
HasAcc(aux_info) == "acc" \in aux_info

\* Faulty variant: the +1 of the reward forgotten.
RewardNoShift(acc) ==
    [b \in 1..Len(acc) |-> RMul(RSub(R(acc[b]), R(1)), R(2))]

\* Lines 160-163: reward = (acc - 1) * 2 + 1 and loss = -reward.

Reward(acc) ==
    [b \in 1..Len(acc) |-> RAdd(RMul(RSub(R(acc[b]), R(1)), R(2)), R(1))]

Loss(reward) == [b \in 1..Len(reward) |-> RNeg(reward[b])]

RewardCompute ==
    /\ pc = "reward"
    /\ IF HasAcc(local.aux_info)
       THEN /\ local' = [local EXCEPT !.reward = Reward(local.acc),
                                      !.loss = Loss(Reward(local.acc))]
            /\ pc' = "effective"
       ELSE Raise("KeyError")
    /\ UNCHANGED <<self, calls, entry, ncalls>>
    /\ UNCHANGED <<oracle, main>>

\* Faulty variant: the mask one position too long.
NotEosedOffByOne(i, message_lengths) ==
    [b \in 1..Len(message_lengths) |-> IF i <= message_lengths[b] THEN R(1) ELSE R(0)]

\* Line 174: not_eosed = (i < message_lengths).float(), i counted from 0.
NotEosed(i, message_lengths) ==
    [b \in 1..Len(message_lengths) |-> IF i < message_lengths[b] THEN R(1) ELSE R(0)]

\* Lines 173-176: the accumulation of one (B, max_len) tensor t into eff,
\* over i = from .. t.size(1) - 1.
RECURSIVE Accumulate(_, _, _, _)
Accumulate(eff, t, message_lengths, from) ==
    IF from >= Len(t[1]) THEN eff
    ELSE Accumulate(TAdd(eff, TMul(Column(t, from + 1), NotEosed(from, message_lengths))),
                    t, message_lengths, from + 1)

\* Lines 167-177: the two sums start as zeros shaped like the Receiver's
\* tensors and are added to in place; the entropy is then divided by the
\* lengths.
Effective ==
    /\ pc = "effective"
    /\ LET zeros_r == Zeros(Len(local.entropy_r))
           lens    == local.message_lengths
       IN  IF Len(local.messages[1]) > 0 /\ ~InPlaceOk(zeros_r, Column(local.entropy_s, 1))
           THEN Raise("RuntimeError")
           ELSE /\ local' =
                     [local EXCEPT
                        !.effective_entropy_s =
                            TDiv(Accumulate(zeros_r, local.entropy_s, lens, 0), FloatT(lens)),
                        !.effective_log_prob_s =
                            Accumulate(Zeros(Len(local.log_prob_r)), local.log_prob_s, lens, 0)]
                /\ pc' = "policy"
    /\ UNCHANGED <<self, calls, entry, ncalls>>
    /\ UNCHANGED <<oracle, main>>

\* Lines 179-182.
WeightedEntropy(effective_entropy_s, entropy_r) ==
    RAdd(RMul(Mean(effective_entropy_s), self.sender_entropy_coeff),
         RMul(Mean(entropy_r), self.receiver_entropy_coeff))

\* Lines 188-191 and 192-194: a centred signal times a log-probability,
\* averaged over the batch.
PolicyTerm(signal, baseline, log_prob) == Mean(TMul(TSub(signal, baseline), log_prob))

\* Faulty variant: the raw task loss added, as in the commented-out line 199.
OptimizedLossPlusTaskLoss(policy_length_loss, policy_loss, weighted_entropy) ==
    RAdd(RSub(RAdd(policy_length_loss, policy_loss), weighted_entropy), Mean(local.loss))

\* Line 196.
OptimizedLoss(policy_length_loss, policy_loss, weighted_entropy) ==
    RSub(RAdd(policy_length_loss, policy_loss), weighted_entropy)

\* Lines 179-196: the entropy term, the two baseline reads and the two
\* policy terms.
PolicyLoss ==
    /\ pc = "policy"
    /\ LET log_prob    == TAdd(local.effective_log_prob_s, local.log_prob_r)
           length_loss == Scale(FloatT(local.message_lengths), self.length_cost)
           with_length == Touch(self.baselines, "length")
           with_loss   == Touch(with_length, "loss")
           b_length    == predict(with_length["length"])
           b_loss      == predict(with_loss["loss"])
       IN  IF ~Broadcastable(length_loss, local.effective_log_prob_s)
           THEN /\ Raise("RuntimeError")
                /\ self' = [self EXCEPT !.baselines = with_length]
                /\ calls' = Append(calls, "predict_length")
           ELSE IF ~Broadcastable(local.loss, log_prob)
           THEN /\ Raise("RuntimeError")
                /\ self' = [self EXCEPT !.baselines = with_loss]
                /\ calls' = calls \o <<"predict_length", "predict_loss">>
           ELSE /\ local' =
                     [local EXCEPT
                        !.length_loss = length_loss,
                        !.baseline_length = b_length,
                        !.baseline_loss = b_loss,
                        !.optimized_loss =
                            OptimizedLoss(
                                PolicyTerm(length_loss, b_length, local.effective_log_prob_s),
                                PolicyTerm(local.loss, b_loss, log_prob),
                                WeightedEntropy(local.effective_entropy_s, local.entropy_r))]
                /\ self' = [self EXCEPT !.baselines = with_loss]
                /\ calls' = calls \o <<"predict_length", "predict_loss">>
                /\ pc' = "structural"
    /\ UNCHANGED <<entry, ncalls>>
    /\ UNCHANGED <<oracle, main>>

\* Faulty variant: the structural path taken at weight 0 too.
StructuralAtZeroToo(weight_structural_loss) == weight_structural_loss >= 0

\* Line 201.
StructuralEnabled(weight_structural_loss) == weight_structural_loss > 0

\* Lines 201-214: the teacher-forced Sender call and the structural loss.
Structural ==
    /\ pc = "structural"
    /\ IF StructuralEnabled(self.weight_structural_loss)
       THEN /\ \E l \in StructLosses :
                  local' = [local EXCEPT
                              !.loss_struct = R(l),
                              !.aux_info = @ \cup {"loss_structural"},
                              !.optimized_loss =
                                  RAdd(@, RMul(R(self.weight_structural_loss), R(l)))]
            /\ calls' = calls \o <<"sender_teacher_forcing", "loss_structural">>
       ELSE UNCHANGED <<local, calls>>
    /\ pc' = "update"
    /\ UNCHANGED <<self, entry, ncalls>>
    /\ UNCHANGED <<oracle, main>>

\* Faulty variant: the baselines updated in evaluation mode too.
UpdateInAnyMode(training) == TRUE

\* Line 216.
UpdateEnabled(training) == training

\* Faulty variant: the "loss" baseline updated a second time in the same step.
UpdateBaselinesTwice(baselines, loss, length_loss) ==
    LET with_loss   == Touch(baselines, "loss")
        upd_loss    == [with_loss EXCEPT !["loss"] = update(update(@, loss), loss)]
        with_length == Touch(upd_loss, "length")
    IN  [with_length EXCEPT !["length"] = update(@, length_loss)]

\* Lines 217-218.
UpdateBaselines(baselines, loss, length_loss) ==
    LET with_loss   == Touch(baselines, "loss")
        upd_loss    == [with_loss EXCEPT !["loss"] = update(@, loss)]
        with_length == Touch(upd_loss, "length")
    IN  [with_length EXCEPT !["length"] = update(@, length_loss)]

BaselineUpdate ==
    /\ pc = "update"
    /\ IF UpdateEnabled(self.training)
       THEN /\ self' = [self EXCEPT !.baselines =
                            UpdateBaselines(@, local.loss, local.length_loss)]
            /\ calls' = calls \o <<"update_loss", "update_length">>
       ELSE UNCHANGED <<self, calls>>
    /\ pc' = "log"
    /\ UNCHANGED <<local, entry, ncalls>>
    /\ UNCHANGED <<oracle, main>>

\* Lines 220-237: the last aux entries, the Interaction built by the logging
\* strategy of the mode, and the return.
LogAndReturn ==
    /\ pc = "log"
    /\ LET aux == local.aux_info \cup {"sender_entropy", "receiver_entropy", "length"}
       IN  local' = [local EXCEPT
                        !.aux_info = aux,
                        !.interaction =
                            IF self.training THEN "train_logging_strategy"
                            ELSE "test_logging_strategy"]
    /\ calls' = Append(calls, "filtered_interaction")
    /\ pc' = "done"
    /\ UNCHANGED <<self, entry, ncalls>>
    /\ UNCHANGED <<oracle, main>>

\* The rest of a call, from the reward on.
Finish ==
    \/ RewardCompute
    \/ Effective
    \/ PolicyLoss
    \/ Structural
    \/ BaselineUpdate
    \/ LogAndReturn

\* Training and evaluation calls, one after the other, with collaborators
\* that keep to the batch size.
Next ==
    \/ ForwardBegin(MaxCalls)
    \/ SenderSample(FALSE, FALSE)
    \/ FindLengths
    \/ Receiver(FALSE)
    \/ LossFunctional(FALSE)
    \/ Finish

Spec == Init /\ [][Next]_vars

\* One call, over every message batch and every "acc" tensor.
NextStep ==
    \/ ForwardBegin(1)
    \/ SenderSample(FALSE, TRUE)
    \/ FindLengths
    \/ Receiver(FALSE)
    \/ LossFunctional(TRUE)
    \/ Finish

SpecStep == Init /\ [][NextStep]_vars

\* One call whose Sender and Receiver may return tensors of any batch size.
NextMismatch ==
    \/ ForwardBegin(1)
    \/ SenderSample(TRUE, FALSE)
    \/ FindLengths
    \/ Receiver(TRUE)
    \/ LossFunctional(FALSE)
    \/ Finish

SpecMismatch == Init /\ [][NextMismatch]_vars

\* --------------------------------- the supervised engine's forward call
\* The variables of the reinforcement engine, which no other program touches.
engine == <<self, local, pc, calls, entry, ncalls>>

\* __init__ of the engine with every coefficient at zero and the default
\* structural weight: the engine that stands by while another program runs.
Plain ==
    [sender_entropy_coeff |-> 0, receiver_entropy_coeff |-> 0,
     length_cost |-> 0, weight_structural_loss |-> 1]

OracleRunning == oracle.pc \notin {"idle", "done"}

\* game.py line 291: a call begins, in the mode the module is in.
OracleBegin ==
    /\ ~OracleRunning
    /\ oracle.ncalls < MaxCalls
    /\ \E mode \in BOOLEAN :
          oracle' = [OracleBuilt EXCEPT
                        !.sender_entropy_coeff = oracle.sender_entropy_coeff,
                        !.receiver_entropy_coeff = oracle.receiver_entropy_coeff,
                        !.length_cost = oracle.length_cost,
                        !.training = mode,
                        !.ncalls = oracle.ncalls + 1,
                        !.pc = "sender"]
    /\ UNCHANGED <<engine, main>>

\* Line 292: the Sender returns its scores and the message of a batch.
OracleSender ==
    /\ oracle.pc = "sender"
    /\ \E n \in 1..MaxB :
          \E m \in MessageBatches(n, FALSE) :
             oracle' = [oracle EXCEPT !.message = m,
                                      !.calls = Append(@, "sender"),
                                      !.pc = "lengths"]
    /\ UNCHANGED <<engine, main>>

\* Line 293.
OracleFindLengths ==
    /\ oracle.pc = "lengths"
    /\ oracle' = [oracle EXCEPT !.message_length = find_lengths(oracle.message),
                                !.calls = Append(@, "find_lengths"),
                                !.pc = "receiver"]
    /\ UNCHANGED <<engine, main>>

\* Line 294.
OracleReceiver ==
    /\ oracle.pc = "receiver"
    /\ oracle' = [oracle EXCEPT !.calls = Append(@, "receiver"),
                                !.pc = "loss"]
    /\ UNCHANGED <<engine, main>>

\* The loss tensors the supplied loss may return for n inputs.
LossValues == {1, 2, 4}

OracleLosses(n) == [1..n -> {R(v) : v \in LossValues}]

\* Faulty variant: the loss summed over the batch.
SumOfLoss(loss) == TSum(loss)

\* Line 300.
OracleOptimizedLoss(loss) == Mean(loss)

\* Lines 296-300: the supplied loss returns a loss tensor and its aux_info;
\* the optimized loss is taken from the tensor.
OracleLoss ==
    /\ oracle.pc = "loss"
    /\ \E keys \in SUBSET {"acc"}, l \in OracleLosses(Len(oracle.message)) :
          oracle' = [oracle EXCEPT !.loss = l,
                                   !.aux_info = keys,
                                   !.optimized_loss = OracleOptimizedLoss(l),
                                   !.calls = Append(@, "loss"),
                                   !.pc = "log"]
    /\ UNCHANGED <<engine, main>>

\* Lines 304-306.
OracleLoggingStrategy(training) ==
    IF training THEN "train_logging_strategy" ELSE "test_logging_strategy"

\* Lines 302-317: the length entry, the Interaction built by the logging
\* strategy of the mode, and the return.
OracleLogAndReturn ==
    /\ oracle.pc = "log"
    /\ oracle' = [oracle EXCEPT
                     !.aux_info = @ \cup {"length"},
                     !.interaction = OracleLoggingStrategy(oracle.training),
                     !.calls = Append(@, "filtered_interaction"),
                     !.pc = "done"]
    /\ UNCHANGED <<engine, main>>

\* Training and evaluation calls of the supervised engine, one after the
\* other.
NextOracle ==
    \/ OracleBegin
    \/ OracleSender
    \/ OracleFindLengths
    \/ OracleReceiver
    \/ OracleLoss
    \/ OracleLogAndReturn

InitOracle ==
    /\ self = Built(Plain)
    /\ Idle
    /\ oracle = OracleBuilt
    /\ main = MainStart(1)

SpecOracle == InitOracle /\ [][NextOracle]_vars

\* ------------------------------ train_image_captioning.py: main's loop
\* Python's < on floats: false as soon as one side is nan.
FloatLess(a, b) ==
    IF a = NaN \/ b = NaN THEN FALSE
    ELSE IF a = PosInf THEN FALSE
    ELSE IF b = PosInf THEN TRUE
    ELSE a[1] * b[2] < b[1] * a[2]

\* args.log_frequency.
LogFrequencies == {1, 2}

\* Line 133: the np.mean of the validation losses: a finite mean, inf when
\* a loss diverged, nan when the list is empty or a loss is nan.
ValLosses == {R(1), R(2), R(3), PosInf, NaN}

\* nn.Module.train() as called at lines 131 and 301.
TrainMode == TRUE

\* Faulty variant: the mode left as it is on entering the validation.
EvalForgotten == TRUE

\* nn.Module.eval() as called at line 73.
EvalMode == FALSE

\* Lines 259-264: the next batch of the epoch, with a validation first every
\* log_frequency batches.
NextBatch ==
    /\ main.pc = "loop"
    /\ main.batch_idx < MaxBatches
    /\ main' = [main EXCEPT !.pc = IF main.batch_idx % main.log_frequency = 0
                                   THEN "validate" ELSE "train"]
    /\ UNCHANGED <<engine, oracle>>

\* Lines 68-74: validate_model is entered and puts the model in eval mode.
ValidateBegin ==
    /\ main.pc = "validate"
    /\ main' = [main EXCEPT !.training = EvalMode,
                            !.val_passes = 0,
                            !.pc = "val_forward"]
    /\ UNCHANGED <<engine, oracle>>

\* Lines 75-129: a forward pass of the validation: the sample captions, a
\* semantic evaluation or a validation batch.
ValidateForward ==
    /\ main.pc = "val_forward"
    /\ main.val_passes < MaxValPasses
    /\ main' = [main EXCEPT !.val_passes = @ + 1,
                            !.val_modes = @ \cup {main.training}]
    /\ UNCHANGED <<engine, oracle>>

\* Lines 75-129: a pass raises; neither validate_model nor main catches it.
ValidateRaise ==
    /\ main.pc = "val_forward"
    /\ main' = [main EXCEPT !.pc = "raised"]
    /\ UNCHANGED <<engine, oracle>>

\* Lines 131-138: the model is put back in training mode and the mean of
\* the validation losses returned; the sample captions of line 75 have
\* taken one pass at least.
ValidateReturn ==
    /\ main.pc = "val_forward"
    /\ main.val_passes > 0
    /\ \E v \in ValLosses :
          main' = [main EXCEPT !.training = TrainMode,
                               !.val_loss = v,
                               !.seen = @ \cup {v},
                               !.pc = "report"]
    /\ UNCHANGED <<engine, oracle>>

\* Faulty variant: a validation loss equal to the best one saved again.
NotWorse(val_loss, best_val_loss) ==
    val_loss = best_val_loss \/ FloatLess(val_loss, best_val_loss)

\* Line 291.
Improves(val_loss, best_val_loss) == FloatLess(val_loss, best_val_loss)

\* Lines 141-150: what torch.save writes to the one checkpoint path.
save_model(best_val_loss, epoch) ==
    [saved |-> TRUE, epoch |-> epoch, loss |-> best_val_loss]

\* Lines 279-299: the validation is reported and, when its loss improves on
\* the best one, kept as the best and the model saved.
Checkpoint ==
    /\ main.pc = "report"
    /\ IF Improves(main.val_loss, main.best_val_loss)
       THEN main' = [main EXCEPT
                        !.best_val_loss = main.val_loss,
                        !.checkpoint = save_model(main.val_loss, main.epoch),
                        !.saves = @ + 1,
                        !.pc = "train"]
       ELSE main' = [main EXCEPT !.pc = "train"]
    /\ UNCHANGED <<engine, oracle>>

\* Line 301.
SetTrain ==
    /\ main.pc = "train"
    /\ main' = [main EXCEPT !.training = TrainMode, !.pc = "forward"]
    /\ UNCHANGED <<engine, oracle>>

\* Lines 303-333: the forward pass of the training batch and its loss.
TrainForward ==
    /\ main.pc = "forward"
    /\ main' = [main EXCEPT !.train_modes = @ \cup {main.training},
                            !.pc = "backward"]
    /\ UNCHANGED <<engine, oracle>>

\* Lines 335-336.
Backward ==
    /\ main.pc = "backward"
    /\ main' = [main EXCEPT !.train_modes = @ \cup {main.training},
                            !.pc = "step"]
    /\ UNCHANGED <<engine, oracle>>

\* Line 337, and the loop goes on to the next batch.
OptimizerStep ==
    /\ main.pc = "step"
    /\ main' = [main EXCEPT !.train_modes = @ \cup {main.training},
                            !.batch_idx = @ + 1,
                            !.pc = "loop"]
    /\ UNCHANGED <<engine, oracle>>

\* Lines 339-341: the train loader is exhausted; the next epoch begins, or
\* main ends after the last one.
EndOfEpoch ==
    /\ main.pc = "loop"
    /\ main.batch_idx = MaxBatches
    /\ main' = [main EXCEPT !.epoch = @ + 1,
                            !.batch_idx = 0,
                            !.pc = IF main.epoch + 1 < MaxEpochs
                                   THEN "loop" ELSE "finished"]
    /\ UNCHANGED <<engine, oracle>>

\* MaxEpochs epochs of MaxBatches batches each.
NextTrain ==
    \/ NextBatch
    \/ ValidateBegin
    \/ ValidateForward
    \/ ValidateRaise
    \/ ValidateReturn
    \/ Checkpoint
    \/ SetTrain
    \/ TrainForward
    \/ Backward
    \/ OptimizerStep
    \/ EndOfEpoch

InitTrain ==
    /\ self = Built(Plain)
    /\ Idle
    /\ oracle = OracleBuilt
    /\ \E f \in LogFrequencies : main = MainStart(f)

SpecTrain == InitTrain /\ [][NextTrain]_vars

\* ------------------------------------------------------------- claims
Count(seq, e) == Cardinality({j \in 1..Len(seq) : seq[j] = e})

\* The position of e's first occurrence in seq, 0 when it has none.
IndexOf(seq, e) ==
    IF \E j \in 1..Len(seq) : seq[j] = e
    THEN Min({j \in 1..Len(seq) : seq[j] = e})
    ELSE 0

SameEstimates(b1, b2) ==
    \A name \in BaselineNames : Estimate(b1, name) = Estimate(b2, name)

\* What a step computes before its baseline update.
ForwardEvents ==
    {"sender_sample", "find_lengths", "receiver", "loss_functional",
     "predict_length", "predict_loss", "sender_teacher_forcing", "loss_structural"}

\* C1: a forward call made in evaluation mode reads the baselines through
\* predict and leaves the count and the mean of every baseline as they were
\* before the call; only a call made in training mode records an update.
C1_EvalLeavesBaselines ==
    /\ (ncalls > 0 /\ ~self.training) =>
          /\ SameEstimates(self.baselines, entry)
          /\ Count(calls, "update_loss") = 0
          /\ Count(calls, "update_length") = 0
          /\ pc = "done" => /\ Count(calls, "predict_length") = 1
                            /\ Count(calls, "predict_loss") = 1
    /\ ~SameEstimates(self.baselines, entry) => self.training

C1_Witness ==
    /\ pc = "done"
    /\ ~self.training
    /\ Estimate(entry, "loss").count > 0
    /\ Estimate(entry, "loss").mean # R(0)
    /\ Count(calls, "predict_loss") = 1

\* C2: a training-mode call updates each baseline exactly once, after every
\* forward computation of the step (the sampled Sender call, the Receiver
\* call, the functional loss, both predict reads, the teacher-forced Sender
\* call and the structural loss when they run) and before the Interaction is
\* built; the baseline values that centre the step's signals are those from
\* before the call, without the step's own observations.
C2_UpdateOnceAfterForward ==
    /\ (Running /\ Count(calls, "update_loss") = 0) =>
          SameEstimates(self.baselines, entry)
    /\ pc \in {"structural", "update", "log", "done"} =>
          /\ local.baseline_loss = <<Estimate(entry, "loss").mean>>
          /\ local.baseline_length = <<Estimate(entry, "length").mean>>
    /\ (self.training /\ pc \in {"log", "done"}) =>
          /\ Count(calls, "update_loss") = 1
          /\ Count(calls, "update_length") = 1
          /\ \A e \in ForwardEvents :
                IndexOf(calls, e) < IndexOf(calls, "update_loss")
          /\ self.baselines["loss"].count
                = Estimate(entry, "loss").count + Len(local.loss)
          /\ self.baselines["length"].count
                = Estimate(entry, "length").count + Len(local.length_loss)
          /\ self.baselines["loss"] = update(Estimate(entry, "loss"), local.loss)
          /\ self.baselines["length"]
                = update(Estimate(entry, "length"), local.length_loss)
    /\ (self.training /\ pc = "done") =>
          /\ Count(calls, "filtered_interaction") = 1
          /\ IndexOf(calls, "update_length") < IndexOf(calls, "filtered_interaction")

C2_Witness ==
    /\ pc = "done"
    /\ self.training
    /\ Count(calls, "sender_teacher_forcing") = 1
    /\ Estimate(entry, "loss").count > 0
    /\ self.baselines["loss"].mean # Estimate(entry, "loss").mean
    /\ local.baseline_loss = <<Estimate(entry, "loss").mean>>

\* The Sender or the Receiver has returned tensors of another batch size
\* than the step's.
SenderMismatch == local.messages # <<>> /\ Len(local.messages) # local.batch

ReceiverMismatch == local.log_prob_r # <<>> /\ Len(local.log_prob_r) # local.batch

\* C3: a step whose Sender or Receiver returned tensors of a batch size other
\* than the step's never returns an (optimized_loss, interaction) pair and
\* never updates a baseline.
C3_MismatchFailsFast ==
    (SenderMismatch \/ ReceiverMismatch) =>
        /\ pc # "done"
        /\ local.interaction = "none"
        /\ Count(calls, "update_loss") = 0
        /\ SameEstimates(self.baselines, entry)

\* The functional loss has returned an aux_info without "acc".
AccMissing == Count(calls, "loss_functional") = 1 /\ "acc" \notin local.aux_info

\* C4: when the functional loss returns an aux_info without "acc", the call
\* fails at the reward computation: no reward, no baseline touched (the
\* baselines are those of before the call), no teacher-forced Sender call,
\* no Interaction.
C4_MissingAccAborts ==
    AccMissing =>
        /\ pc \in {"reward", "error"}
        /\ pc = "error" => local.error = "KeyError"
        /\ local.reward = <<>>
        /\ local.loss = <<>>
        /\ self.baselines = entry
        /\ Count(calls, "predict_loss") = 0
        /\ Count(calls, "update_loss") = 0
        /\ Count(calls, "sender_teacher_forcing") = 0
        /\ Count(calls, "filtered_interaction") = 0
        /\ local.interaction = "none"

C4_Witness ==
    /\ AccMissing
    /\ pc = "error"
    /\ local.error = "KeyError"
    /\ self.training
    /\ Estimate(entry, "loss").count > 0

\* The sum of a row's first n entries.
RECURSIVE PrefixSum(_, _)
PrefixSum(row, n) == IF n = 0 THEN R(0) ELSE RAdd(PrefixSum(row, n - 1), row[n])

\* t with every entry at a position >= its row's length replaced by v.
Overwritten(t, message_lengths, v) ==
    [b \in 1..Len(t) |->
        [i \in 1..Len(t[b]) |-> IF i - 1 >= message_lengths[b] THEN R(v) ELSE t[b][i]]]

Sentinels == {-1000, 0, 7}

EffectiveDone == local.effective_log_prob_s # <<>>

PolicyOnly ==
    OptimizedLoss(
        PolicyTerm(local.length_loss, local.baseline_length, local.effective_log_prob_s),
        PolicyTerm(local.loss, local.baseline_loss,
                   TAdd(local.effective_log_prob_s, local.log_prob_r)),
        WeightedEntropy(local.effective_entropy_s, local.entropy_r))

\* C6: with weight_structural_loss = 0 the Sender is invoked once, sampling,
\* the structural loss never, aux_info gets no "loss_structural" and
\* optimized_loss no structural term; with weight_structural_loss > 0 the
\* Sender is invoked twice, sampled call first and teacher-forced call
\* second, and the structural loss once.
C6_StructuralPath ==
    pc \in {"update", "log", "done"} =>
        /\ Count(calls, "sender_sample") = 1
        /\ self.weight_structural_loss = 0 =>
              /\ Count(calls, "sender_teacher_forcing") = 0
              /\ Count(calls, "loss_structural") = 0
              /\ "loss_structural" \notin local.aux_info
              /\ local.optimized_loss = PolicyOnly
        /\ self.weight_structural_loss > 0 =>
              /\ Count(calls, "sender_teacher_forcing") = 1
              /\ Count(calls, "loss_structural") = 1
              /\ IndexOf(calls, "sender_sample") < IndexOf(calls, "sender_teacher_forcing")
              /\ IndexOf(calls, "sender_teacher_forcing") < IndexOf(calls, "loss_structural")
              /\ "loss_structural" \in local.aux_info

C6_Witness ==
    /\ pc = "done"
    /\ self.weight_structural_loss = 0
    /\ Count(calls, "sender_sample") = 1
    /\ local.optimized_loss # R(0)

\* C7: acc = 1 gives reward 1 and acc = 0 gives reward -1, the reward is the
\* increasing affine map 2 * acc - 1 and takes no other value; the loss that
\* feeds the policy gradient and the "loss" baseline is -reward.
C7_RewardMapping ==
    local.reward # <<>> =>
        /\ Len(local.reward) = Len(local.acc)
        /\ Len(local.loss) = Len(local.acc)
        /\ \A b \in 1..Len(local.acc) :
              /\ local.acc[b] = 1 => local.reward[b] = R(1)
              /\ local.acc[b] = 0 => local.reward[b] = R(-1)
              /\ local.reward[b] \in {R(1), R(-1)}
              /\ local.reward[b] = R(2 * local.acc[b] - 1)
              /\ local.loss[b] = R(-(2 * local.acc[b] - 1))
        /\ \A b, c \in 1..Len(local.acc) :
              local.acc[b] < local.acc[c] => local.reward[b][1] < local.reward[c][1]
        /\ (self.training /\ pc \in {"log", "done"}) =>
              self.baselines["loss"]
                 = update(Estimate(entry, "loss"),
                          [b \in 1..Len(local.acc) |-> R(-(2 * local.acc[b] - 1))])

C7_Witness ==
    /\ pc = "done"
    /\ self.training
    /\ \E b \in 1..Len(local.acc) : local.acc[b] = 1 /\ local.reward[b] = R(1)
    /\ \E b \in 1..Len(local.acc) : local.acc[b] = 0 /\ local.reward[b] = R(-1)

ExampleMessages ==
    << <<3, 5, 0, 0, 0>>, <<7, 0, 0, 0, 0>>, <<2, 2, 2, 2, 2>>, <<9, 0, 0, 0, 0>> >>

\* C8: the length the engine uses for a row is 1 + the index of its first
\* EOS, or max_len when it holds none, so 1 <= length <= max_len (a row that
\* starts with EOS has length 1) and the entropy is never divided by zero;
\* the example batch has the lengths 3, 2, 5, 2.
C8_MessageLengths ==
    /\ MessageLengths(ExampleMessages) = <<3, 2, 5, 2>>
    /\ local.message_lengths # <<>> =>
          /\ Len(local.message_lengths) = Len(local.messages)
          /\ \A b \in 1..Len(local.messages) :
                LET row == local.messages[b]
                    n   == local.message_lengths[b]
                IN  /\ 1 <= n
                    /\ n <= Len(row)
                    /\ \A i \in 1..(n - 1) : row[i] # EOS
                    /\ n < Len(row) => row[n] = EOS
                    /\ row[1] = EOS => n = 1
                    /\ (\A i \in 1..Len(row) : row[i] # EOS) => n = Len(row)
    /\ EffectiveDone =>
          \A b \in 1..Len(local.effective_entropy_s) :
             ~IsNaN(local.effective_entropy_s[b])

C8_Witness ==
    /\ pc = "policy"
    /\ \E b \in 1..Len(local.messages) :
          local.messages[b][1] = EOS /\ local.message_lengths[b] = 1
    /\ \E b \in 1..Len(local.messages) :
          /\ \A i \in 1..MaxLen : local.messages[b][i] # EOS
          /\ local.message_lengths[b] = MaxLen

RECURSIVE Sigma(_)
Sigma(x) == IF Len(x) = 0 THEN R(0)
            ELSE RAdd(Sigma(SubSeq(x, 1, Len(x) - 1)), x[Len(x)])

\* C10: the scalar returned is policy_length_loss + policy_loss -
\* weighted_entropy, plus weight_structural_loss * loss_struct exactly when
\* weight_structural_loss > 0, with the baselines as they were before the
\* step's update; the mean of the raw task loss is not added.
C10_OptimizedLoss ==
    pc = "done" =>
        LET n       == local.batch
            lens    == local.message_lengths
            eff_lp  == local.effective_log_prob_s
            b_len   == Estimate(entry, "length").mean
            b_loss  == Estimate(entry, "loss").mean
            policy_length_loss ==
                RDiv(Sigma([b \in 1..n |->
                        RMul(RSub(RMul(R(lens[b]), self.length_cost), b_len), eff_lp[b])]),
                     R(n))
            policy_loss ==
                RDiv(Sigma([b \in 1..n |->
                        RMul(RSub(R(-(2 * local.acc[b] - 1)), b_loss),
                             RAdd(eff_lp[b], local.log_prob_r[b]))]),
                     R(n))
            weighted_entropy ==
                RAdd(RMul(RDiv(Sigma(local.effective_entropy_s), R(n)),
                          self.sender_entropy_coeff),
                     RMul(RDiv(Sigma(local.entropy_r), R(n)),
                          self.receiver_entropy_coeff))
            base == RSub(RAdd(policy_length_loss, policy_loss), weighted_entropy)
        IN  local.optimized_loss =
                IF self.weight_structural_loss > 0
                THEN RAdd(base, RMul(R(self.weight_structural_loss), local.loss_struct))
                ELSE base

C10_Witness ==
    /\ pc = "done"
    /\ self.training
    /\ self.weight_structural_loss > 0
    /\ Estimate(entry, "loss").mean # R(0)
    /\ Estimate(entry, "length").mean # R(0)
    /\ self.baselines["loss"].mean # Estimate(entry, "loss").mean
    /\ Mean(local.loss) # R(0)
    /\ local.optimized_loss # R(0)

\* ---- C11
\* The order of the collaborators in one call of the supervised engine.
OracleOrder == <<"sender", "find_lengths", "receiver", "loss", "filtered_interaction">>

\* Where the call stands after so many collaborators have been invoked.
OraclePhases == <<"sender", "lengths", "receiver", "loss", "log", "done">>

\* C11: a forward call of the supervised engine, in training as in
\* evaluation mode, goes through its phases in order: what it has invoked so
\* far is always the beginning of Sender, find_lengths, Receiver, loss,
\* filtered_interaction, each once and no baseline among them, and it stands
\* at the phase that follows; it leaves the coefficients it was built with
\* as they were; when it returns, it has invoked all five, the optimized loss
\* is the sum of the supplied loss tensor divided by the batch size, and the
\* Interaction was built by the train strategy in training mode and by the
\* test strategy in evaluation mode.
C11_OracleForward ==
    /\ oracle.calls = SubSeq(OracleOrder, 1, Len(oracle.calls))
    /\ oracle.pc # "idle" => oracle.pc = OraclePhases[Len(oracle.calls) + 1]
    /\ oracle.sender_entropy_coeff = OracleBuilt.sender_entropy_coeff
    /\ oracle.receiver_entropy_coeff = OracleBuilt.receiver_entropy_coeff
    /\ oracle.length_cost = OracleBuilt.length_cost
    /\ oracle.pc = "done" =>
          /\ oracle.calls = OracleOrder
          /\ Count(oracle.calls, "sender") = 1
          /\ Count(oracle.calls, "receiver") = 1
          /\ Count(oracle.calls, "loss") = 1
          /\ Len(oracle.loss) = Len(oracle.message)
          /\ oracle.optimized_loss = RDiv(Sigma(oracle.loss), R(Len(oracle.loss)))
          /\ oracle.training => oracle.interaction = "train_logging_strategy"
          /\ ~oracle.training => oracle.interaction = "test_logging_strategy"

\* A second call, in evaluation mode, has returned on a batch of two whose
\* losses differ.
C11_Witness ==
    /\ oracle.pc = "done"
    /\ oracle.ncalls = 2
    /\ ~oracle.training
    /\ Len(oracle.loss) = 2
    /\ oracle.loss[1] # oracle.loss[2]
    /\ oracle.interaction = "test_logging_strategy"

\* ---- C12
\* No validation loss seen so far is below the best one; a checkpoint exists
\* exactly when one was saved, and then holds the best loss, which is one of
\* the losses seen; without a checkpoint the best loss is still infinity.
BestIsMinimum ==
    /\ main.pc # "report" =>
          \A v \in main.seen : ~FloatLess(v, main.best_val_loss)
    /\ main.checkpoint.saved <=> main.saves > 0
    /\ main.checkpoint.saved =>
          /\ main.checkpoint.loss = main.best_val_loss
          /\ main.checkpoint.loss \in main.seen
    /\ ~main.checkpoint.saved => main.best_val_loss = PosInf

\* A step never raises the best loss; it saves a checkpoint exactly when it
\* is the report of a validation whose loss is strictly below the best one,
\* and then the best loss and the checkpoint's loss are that loss; any
\* other step leaves both alone.
SavedWhenImproved ==
    /\ main'.best_val_loss # NaN
    /\ ~FloatLess(main.best_val_loss, main'.best_val_loss)
    /\ (main'.saves # main.saves) <=>
          (main.pc = "report" /\ FloatLess(main.val_loss, main.best_val_loss))
    /\ main'.saves # main.saves =>
          /\ main'.saves = main.saves + 1
          /\ main'.best_val_loss = main.val_loss
          /\ main'.checkpoint = [saved |-> TRUE, epoch |-> main.epoch,
                                  loss |-> main.val_loss]
    /\ main'.saves = main.saves =>
          /\ main'.best_val_loss = main.best_val_loss
          /\ main'.checkpoint = main.checkpoint

\* C12: in main's training loop best_val_loss starts at infinity and no
\* step raises it; a checkpoint is saved exactly when a validation returns a
\* loss strictly below the current best_val_loss, and best_val_loss is then
\* the loss saved, so that the checkpoint always holds the least validation
\* loss seen so far.
C12_BestCheckpoint ==
    /\ main.best_val_loss = PosInf
    /\ []BestIsMinimum
    /\ [][SavedWhenImproved]_vars

\* Two checkpoints saved, the second below the first, after validations
\* that returned nan and a loss equal to the best one, neither saved.
C12_Witness ==
    /\ main.saves = 2
    /\ main.pc = "train"
    /\ main.val_loss = main.best_val_loss
    /\ NaN \in main.seen
    /\ Cardinality(main.seen) >= 3
    /\ main.checkpoint.loss = R(1)
    /\ main.checkpoint.epoch = 1

\* ---- C13
\* C13: every forward pass of a validation runs in eval mode; when
\* validate_model has returned, and main reports its result, the model is
\* back in training mode; every forward pass, backward pass and optimizer
\* step of a training batch runs in training mode, and the model is in
\* training mode from line 301 to the end of the batch, whether a
\* validation came before the batch or not.
C13_ModeDiscipline ==
    /\ main.val_modes \subseteq {FALSE}
    /\ main.pc = "val_forward" => ~main.training
    /\ main.pc = "report" => main.training
    /\ main.train_modes \subseteq {TRUE}
    /\ main.pc \in {"forward", "backward", "step"} => main.training

\* An optimizer step is about to run in a batch that no validation came
\* before, after validations have run their forward passes and returned.
C13_Witness ==
    /\ main.pc = "step"
    /\ main.batch_idx % main.log_frequency # 0
    /\ main.val_modes = {FALSE}
    /\ main.train_modes = {TRUE}
    /\ main.seen # {}
    /\ main.epoch = 1

====
